---- MODULE Spec2Model ----
(***************************************************************************)
(* A model of vid_sync (src/main.py): the estimation of the time offset    *)
(* between two recordings of one event.                                    *)
(*                                                                         *)
(* Four activation frames are modelled, each with a specification of its   *)
(* own:                                                                    *)
(*   par   parabolic_interpolation applied to the argmax of a curve        *)
(*         (SpecPar)                                                       *)
(*   gcc   gcc_phat from the inverse transform on (SpecGcc)                *)
(*   fso   find_sync_offset, one step per numbered step of its body (Spec) *)
(*   prog  the __main__ block, run after run over one ./tmp directory      *)
(*         (SpecMain)                                                      *)
(*                                                                         *)
(* Numbers.  Samples and envelope values are integers.  A value the code   *)
(* holds as a float and that is a quotient is a record [n, d]: the         *)
(* rational n/d when d > 0, nan when n = d = 0, +-inf when d = 0 /= n      *)
(* (numpy's float division does not raise).  The entries of the NCC curve  *)
(* and the arithmetic of parabolic_interpolation are binary floating point *)
(* with round-to-nearest-even, on a significand of Precision bits in place *)
(* of the 53 of a double; the lags, which the code derives from them by a  *)
(* sum and a quotient, are kept exact.  Indices are 0-based as in the      *)
(* source; At and Slice translate to TLA+'s 1-based sequences.             *)
(***************************************************************************)
EXTENDS Integers, Sequences, FiniteSets, TLC

VARIABLES par, gcc, fso, prog

vars == <<par, gcc, fso, prog>>

\* A frame that the specification at hand does not run.
Idle == [pc |-> "idle"]

---------------------------------------------------------------------------
(* Bounds of the model *)

\* largest magnitude of an entry of the curve produced by the inverse
\* transform
MaxVal == 1
\* largest length of a curve handed to parabolic_interpolation
MaxCurve == 3
\* bits of the significand of a float
Precision == 3
\* binades of the floats above the subnormal ones
ExpRange == 8

---------------------------------------------------------------------------
(* Arithmetic *)

Abs(x) == IF x < 0 THEN -x ELSE x

Max2(a, b) == IF a >= b THEN a ELSE b

Min2(a, b) == IF a <= b THEN a ELSE b

RECURSIVE Gcd(_, _)
Gcd(a, b) == IF b = 0 THEN a ELSE Gcd(b, a % b)

\* The float n/d: lowest terms, positive denominator; d = 0 is nan or inf.
Rat(n, d) ==
    IF d = 0 THEN [n |-> (IF n = 0 THEN 0 ELSE IF n > 0 THEN 1 ELSE -1), d |-> 0]
    ELSE LET g == Gcd(Abs(n), Abs(d))
             s == IF d < 0 THEN -1 ELSE 1
         IN  [n |-> (s * n) \div g, d |-> (s * d) \div g]

RInt(k) == [n |-> k, d |-> 1]

NaN == [n |-> 0, d |-> 0]

Finite(r) == r.d > 0

\* nan and inf propagate as in IEEE arithmetic (inf - inf and 0 * inf are nan)
RAdd(a, b) ==
    IF Finite(a) /\ Finite(b)
    THEN LET g == Gcd(a.d, b.d)
         IN  Rat(a.n * (b.d \div g) + b.n * (a.d \div g), (a.d \div g) * b.d)
    ELSE IF (a.d = 0 /\ a.n = 0) \/ (b.d = 0 /\ b.n = 0) THEN NaN
    ELSE IF a.d = 0 /\ b.d = 0 /\ a.n # b.n THEN NaN
    ELSE IF a.d = 0 THEN a ELSE b

RNeg(a) == [n |-> -a.n, d |-> a.d]

RSub(a, b) == RAdd(a, RNeg(b))

RMul(a, b) == Rat(a.n * b.n, a.d * b.d)

\* a / b for a float a and b; x / 0 is +-inf and 0 / 0 is nan
RDiv(a, b) == Rat(a.n * b.d, a.d * b.n)

RLeq(a, b) == Finite(a) /\ Finite(b) /\ a.n * b.d <= b.n * a.d

RLt(a, b) == Finite(a) /\ Finite(b) /\ a.n * b.d < b.n * a.d

RAbs(a) == [n |-> Abs(a.n), d |-> a.d]

---------------------------------------------------------------------------
(* Binary floating point *)

RECURSIVE Pow2(_)
Pow2(k) == IF k = 0 THEN 1 ELSE 2 * Pow2(k - 1)

\* 1.0 in units of the smallest positive float
One == Pow2(Precision + 1)

\* the binade of n/d units: the least j with |n/d| < 2^(Precision + j)
RECURSIVE Binade(_, _, _)
Binade(n, d, j) == IF n < Pow2(Precision + j) * d THEN j ELSE Binade(n, d, j + 1)

\* n/d (d > 0) to the nearest integer, a tie to the even one
RoundHalfEven(n, d) ==
    LET fl  == n \div d
        rem == n - fl * d
    IN  IF 2 * rem < d THEN fl
        ELSE IF 2 * rem > d THEN fl + 1
        ELSE IF fl % 2 = 0 THEN fl ELSE fl + 1

\* the float nearest to x: in binade j the floats are 2^j units apart;
\* beyond the largest float the result is +-inf
FlRound(x) ==
    IF ~Finite(x) THEN x
    ELSE LET y == Rat(x.n * One, x.d)
             j == Binade(Abs(y.n), y.d, 0)
             r == RoundHalfEven(y.n, y.d * Pow2(j))
         IN  IF j > ExpRange \/ (j = ExpRange /\ Abs(r) = Pow2(Precision))
             THEN Rat(y.n, 0)
             ELSE Rat(r * Pow2(j), One)

\* the float operations: the exact result, rounded
FAdd(a, b) == FlRound(RAdd(a, b))

FSub(a, b) == FlRound(RSub(a, b))

FMul(a, b) == FlRound(RMul(a, b))

FDiv(a, b) == FlRound(RDiv(a, b))

\* the floats in [0, 1], in units of 1 / One
UnitFloats == {k \in 0..One : FlRound(Rat(k, One)) = Rat(k, One)}

\* the float next below k in UnitFloats (k > 0)
PrevFloat(k) == CHOOSE p \in UnitFloats : p < k /\ \A q \in UnitFloats : q < k => q <= p

\* the largest member of a non-empty set of integers
MaxOf(S) == CHOOSE m \in S : \A q \in S : q <= m

---------------------------------------------------------------------------
(* Python sequences *)

\* c[i] for 0 <= i < len(c), and c[i] counted from the end for i < 0
At(c, i) == IF i < 0 THEN c[Len(c) + i + 1] ELSE c[i + 1]

\* c[lo:hi] for 0 <= lo, 0 <= hi: clipped to the sequence, empty if lo >= hi
Slice(c, lo, hi) ==
    LET l == Min2(lo, Len(c))
        h == Min2(hi, Len(c))
    IN  IF l >= h THEN << >> ELSE [k \in 1..(h - l) |-> c[l + k]]

\* c[-m:] for m >= 0: the last m entries; -0 is 0, so c[-0:] is all of c,
\* and so is c[-m:] when m exceeds the length
LastN(c, m) == IF m = 0 \/ m >= Len(c) THEN c ELSE Slice(c, Len(c) - m, Len(c))

\* np.argmax: the first index of the largest entry (0 for one entry)
ArgMax(c) ==
    CHOOSE i \in 0..(Len(c) - 1) :
        /\ \A j \in 0..(Len(c) - 1) : At(c, j) <= At(c, i)
        /\ \A j \in 0..(i - 1) : At(c, j) < At(c, i)

\* np.argmax on a curve of floats
ArgMaxF(c) ==
    CHOOSE i \in 0..(Len(c) - 1) :
        /\ \A j \in 0..(Len(c) - 1) : RLeq(At(c, j), At(c, i))
        /\ \A j \in 0..(i - 1) : RLt(At(c, j), At(c, i))

RECURSIVE SumTo(_, _)
SumTo(s, k) == IF k = 0 THEN 0 ELSE s[k] + SumTo(s, k - 1)

\* the sum of the entries of s
SumSeq(s) == SumTo(s, Len(s))

\* all sequences over S of length exactly n
SeqsOfLen(S, n) == [1..n -> S]

\* all sequences over S of length lo..hi
SeqsUpTo(S, lo, hi) == UNION {SeqsOfLen(S, n) : n \in lo..hi}

---------------------------------------------------------------------------
(* parabolic_interpolation, src/main.py 123-128 *)

\* 0.5 * (a - g) / (a - 2 * b + g) in float arithmetic, each operation
\* rounded, and 0.0 at the first and last index; the denominator is not
\* tested before the division
parabolic_interpolation(c, idx) ==
    IF idx <= 0 \/ idx >= Len(c) - 1 THEN RInt(0)
    ELSE LET a == At(c, idx - 1)
             b == At(c, idx)
             g == At(c, idx + 1)
         IN  FDiv(FMul(Rat(1, 2), FSub(a, g)),
                  FAdd(FSub(a, FMul(RInt(2), b)), g))

\* values of a curve handed to the interpolation: the floats of magnitude
\* at most 1
CurveVals == {Rat(s * k, One) : s \in {-1, 1}, k \in UnitFloats}

\* Curves handed to the interpolation: every non-empty curve in the bounds.
Curves == SeqsUpTo(CurveVals, 1, MaxCurve)

ParInit ==
    /\ par \in {[pc |-> "argmax", c |-> c, idx |-> -1, frac |-> RInt(0)] : c \in Curves}
    /\ gcc = Idle
    /\ fso = Idle
    /\ prog = Idle

\* idx = int(np.argmax(ncc)), line 194
ParArgMax ==
    /\ par.pc = "argmax"
    /\ par' = [par EXCEPT !.pc = "interp", !.idx = ArgMaxF(par.c)]
    /\ UNCHANGED <<gcc, fso, prog>>

\* frac = parabolic_interpolation(ncc, idx), line 195
ParInterpolate ==
    /\ par.pc = "interp"
    /\ par' = [par EXCEPT !.pc = "done", !.frac = parabolic_interpolation(par.c, par.idx)]
    /\ UNCHANGED <<gcc, fso, prog>>

ParNext == ParArgMax \/ ParInterpolate

SpecPar == ParInit /\ [][ParNext]_vars

\* C10: for a non-empty curve and idx the first index of its maximum, the
\* refinement is 0 at the first and last index and otherwise a finite value
\* (non-zero denominator) of magnitude at most 1/2.
C10_RefinementDefinedAndBounded ==
    par.pc = "done" =>
        /\ (par.idx = 0 \/ par.idx = Len(par.c) - 1) => par.frac = RInt(0)
        /\ Finite(par.frac)
        /\ RLeq(RAbs(par.frac), Rat(1, 2))

\* C10, the first half alone: the refinement at the first and last index
C10_ZeroAtTheEnds ==
    par.pc = "done" =>
        ((par.idx = 0 \/ par.idx = Len(par.c) - 1) => par.frac = RInt(0))

\* C10, the part on the denominator alone: the refinement is a finite value
C10_RefinementFinite == par.pc = "done" => Finite(par.frac)

---------------------------------------------------------------------------
(* gcc_phat, src/main.py 131-150 *)

\* largest x.size and y.size handed to gcc_phat in SpecGcc
MaxSize == 2
\* max_tau ranges over the multiples of 1/2 second up to MaxTauHalves / 2
MaxTauHalves == 3
\* sample rates and interpolation factors tried in SpecGcc
GccRates == {1, 2}
GccInterps == {1, 2}

\* max_tau: float | None
NoMaxTau == [none |-> TRUE, v |-> RInt(0)]
SomeMaxTau(t) == [none |-> FALSE, v |-> t]

\* int(f) of a non-negative float
IntTrunc(r) == r.n \div r.d

\* np.abs, element by element
AbsSeq(c) == [k \in 1..Len(c) |-> Abs(c[k])]

\* lines 145-147: max_shift = int(interp * n // 2), lowered to
\* int(interp * max_tau * sr) when max_tau is given
max_shift_of(n, sr, max_tau, interp) ==
    LET half == (interp * n) \div 2
    IN  IF max_tau.none THEN half
        ELSE Min2(IntTrunc(RMul(RInt(interp * sr), max_tau.v)), half)

\* line 148: cc = np.concatenate((cc[-max_shift:], cc[: max_shift + 1]))
center(cc, max_shift) == LastN(cc, max_shift) \o Slice(cc, 0, max_shift + 1)

\* line 149: shift = np.argmax(np.abs(cc)) - max_shift
shift_of(cc, max_shift) == ArgMax(AbsSeq(cc)) - max_shift

\* line 150: shift / float(interp * sr)
delay_of(shift, sr, interp) == Rat(shift, interp * sr)

GccInit ==
    /\ gcc \in {[pc |-> "irfft", xsize |-> xs, ysize |-> ys, n |-> xs + ys,
                 sr |-> sr, interp |-> ip, max_tau |-> mt,
                 cc |-> << >>, max_shift |-> 0, shift |-> 0, delay |-> RInt(0)] :
                xs \in 0..(MaxSize - 1), ys \in 1..MaxSize, sr \in GccRates,
                ip \in GccInterps,
                mt \in {NoMaxTau} \cup {SomeMaxTau(Rat(h, 2)) : h \in 0..MaxTauHalves}}
    /\ par = Idle
    /\ fso = Idle
    /\ prog = Idle

\* lines 139-143: cc = irfft(R, n = interp * n), a real array of interp * n
\* entries; which array is left open (it depends on x and y)
GccInverse ==
    /\ gcc.pc = "irfft"
    /\ \E cc \in SeqsOfLen((-MaxVal)..MaxVal, gcc.interp * gcc.n) :
           gcc' = [gcc EXCEPT !.pc = "center", !.cc = cc]
    /\ UNCHANGED <<par, fso, prog>>

\* lines 145-148
GccCenter ==
    /\ gcc.pc = "center"
    /\ LET ms == max_shift_of(gcc.n, gcc.sr, gcc.max_tau, gcc.interp)
       IN  gcc' = [gcc EXCEPT !.pc = "peak", !.max_shift = ms, !.cc = center(gcc.cc, ms)]
    /\ UNCHANGED <<par, fso, prog>>

\* lines 149-150
GccPeak ==
    /\ gcc.pc = "peak"
    /\ LET sh == shift_of(gcc.cc, gcc.max_shift)
       IN  gcc' = [gcc EXCEPT !.pc = "done", !.shift = sh,
                              !.delay = delay_of(sh, gcc.sr, gcc.interp)]
    /\ UNCHANGED <<par, fso, prog>>

GccNext == GccInverse \/ GccCenter \/ GccPeak

SpecGcc == GccInit /\ [][GccNext]_vars

\* C7: with a maximum lag given, the returned curve is the window of
\* 2 * max_shift + 1 entries around zero lag, max_shift being
\* min(int(interp * max_tau * sr), interp * n div 2), and the returned lag
\* lies within it: |lag| * interp * sr <= max_shift, max_shift = 0 included.
C7_LagWithinMaxShift ==
    (gcc.pc = "done" /\ ~gcc.max_tau.none) =>
        /\ gcc.max_shift =
               Min2(IntTrunc(RMul(RInt(gcc.interp * gcc.sr), gcc.max_tau.v)),
                    (gcc.interp * gcc.n) \div 2)
        /\ Len(gcc.cc) = 2 * gcc.max_shift + 1
        /\ RLeq(RMul(RAbs(gcc.delay), RInt(gcc.interp * gcc.sr)), RInt(gcc.max_shift))

\* C7 away from max_shift = 0: the window and the lag are as claimed
C7_LagWithinPositiveMaxShift ==
    (gcc.pc = "done" /\ ~gcc.max_tau.none /\ gcc.max_shift > 0) =>
        /\ Len(gcc.cc) = 2 * gcc.max_shift + 1
        /\ RLeq(RMul(RAbs(gcc.delay), RInt(gcc.interp * gcc.sr)), RInt(gcc.max_shift))

---------------------------------------------------------------------------
(* Signal processing used by find_sync_offset *)

\* samples are integers in 0..MaxAmp
MaxAmp == 1
\* samples per onset-envelope frame (the hop of librosa.onset.onset_strength,
\* which the source leaves at the library's default), scaled down
Hop == 2

\* bandpass_filter, lines 116-120: filtfilt runs the filter forward and then
\* backward, so the output has the input's length and no delay.  The
\* Butterworth design is the library's; the forward-backward pass is kept
\* with the first difference as the one-pass filter (it removes the constant
\* part, as the band-pass does): -x[k-1] + 2 x[k] - x[k+1].
bandpass_filter(x) ==
    [k \in 1..Len(x) |->
        2 * x[k] - (IF k > 1 THEN x[k - 1] ELSE 0) - (IF k < Len(x) THEN x[k + 1] ELSE 0)]

\* level of the analysis frame centred on sample t * Hop: the sum of the
\* magnitudes of the Hop samples around it (zero beyond the ends)
FrameLevel(y, t) ==
    LET lo == Max2(t * Hop - Hop \div 2, 0)
        hi == Min2(t * Hop - Hop \div 2 + Hop, Len(y))
    IN  SumSeq([k \in 1..Max2(hi - lo, 0) |-> Abs(y[lo + k])])

\* librosa.onset.onset_strength(y = ., sr = sr), lines 174 and 187: one
\* non-negative value per frame of Hop samples, 1 + len(y) // Hop frames
\* (centred frames), each the half-wave rectified increase of the frame's
\* level over the frame before; the first frame has none before it.  The
\* library measures the level on a mel spectrogram in dB; the model keeps
\* the framing, the rectified difference and the sign.
onset_strength(y) ==
    [f \in 1..(Len(y) \div Hop + 1) |->
        IF f = 1 THEN 0 ELSE Max2(FrameLevel(y, f - 1) - FrameLevel(y, f - 2), 0)]

\* x zero-padded to n entries (rfft(x, n = n), lines 139-140)
ZeroPad(x, n) == [k \in 1..n |-> IF k <= Len(x) THEN x[k] ELSE 0]

\* lines 139-143 for interp = 1: the inverse transform of X * conj(Y) is the
\* circular cross-correlation cc[k] = sum_m x[(m + k) mod n] * y[m] of the
\* zero-padded signals.  The phase transform of line 142 reweights the
\* spectrum bin by bin; it is not computable over the integers and is left
\* out, so cc here is the unweighted correlation.
cross_correlation(x, y, n) ==
    LET xp == ZeroPad(x, n)
        yp == ZeroPad(y, n)
    IN  [k \in 1..n |->
            SumSeq([m \in 1..n |-> xp[((m - 1 + k - 1) % n) + 1] * yp[m]])]

\* gcc_phat(seg, sig_bp, sr), line 184: max_tau = None, interp = 1
gcc_phat(x, y, sr) ==
    LET n  == Len(x) + Len(y)
        ms == max_shift_of(n, sr, NoMaxTau, 1)
        cc == center(cross_correlation(x, y, n), ms)
    IN  delay_of(shift_of(cc, ms), sr, 1)

\* correlate(o_s, o_t, mode = "valid"), line 188: z[k] = sum_m o_s[m + k] *
\* o_t[m], one entry per placement of the shorter envelope inside the longer
\* one.  With o_t the longer one the library swaps the two and reverses the
\* result, which is the same sum over the lags k = len(o_s) - len(o_t) .. 0.
correlate_valid(o_s, o_t) ==
    IF Len(o_t) <= Len(o_s)
    THEN [k \in 1..(Len(o_s) - Len(o_t) + 1) |->
            SumSeq([m \in 1..Len(o_t) |-> o_s[k + m - 1] * o_t[m]])]
    ELSE [k \in 1..(Len(o_t) - Len(o_s) + 1) |->
            SumSeq([m \in 1..Len(o_s) |-> o_s[m] * o_t[m + Len(o_t) - Len(o_s) + 1 - k]])]

\* lines 189-191 squared: Et^2 = |o_t|^2, and Es[k]^2 = the sliding sum of
\* o_s^2 over len(o_t) entries (np.convolve with a window of ones, "valid";
\* a window longer than o_s covers all of it at every placement)
Et2(o_t) == SumSeq([m \in 1..Len(o_t) |-> o_t[m] * o_t[m]])

Es2(o_s, o_t) ==
    IF Len(o_t) <= Len(o_s)
    THEN [k \in 1..(Len(o_s) - Len(o_t) + 1) |->
            SumSeq([m \in 1..Len(o_t) |-> o_s[k + m - 1] * o_s[k + m - 1]])]
    ELSE [k \in 1..(Len(o_t) - Len(o_s) + 1) |->
            SumSeq([m \in 1..Len(o_s) |-> o_s[m] * o_s[m]])]

\* line 192, one entry: the float nearest to corr / (Et * Es + 1e-8).
\* corr = 0 gives 0.0 (the 1e-8 keeps the quotient defined); otherwise the
\* value v is just below corr / sqrt(Et^2 * Es^2), at most 1, and the float
\* k / One is at or below the nearest one when the midpoint of k and the
\* float before it is below v (compared on the squares).
ncc_entry(corr, e2) ==
    IF corr = 0 THEN RInt(0)
    ELSE Rat(MaxOf({k \in UnitFloats :
                      \/ k = 0
                      \/ (PrevFloat(k) + k) * (PrevFloat(k) + k) * e2
                            < 4 * One * One * corr * corr}),
             One)

\* line 192
ncc_of(o_s, o_t) ==
    LET corr == correlate_valid(o_s, o_t)
        es2  == Es2(o_s, o_t)
        et2  == Et2(o_t)
    IN  [k \in 1..Len(corr) |-> ncc_entry(corr[k], et2 * es2[k])]

---------------------------------------------------------------------------
(* find_sync_offset, src/main.py 153-205 *)

\* length in samples of the first recording
WavLen == 4
\* the second recording is the first one, or the first one between two
\* stretches of d silent samples, d up to MaxDelay
MaxDelay == 1
\* n_segments ranges over 1..MaxSeg
MaxSeg == 3
\* start2 ranges over 0..MaxStart2 samples (start1 over the whole recording)
MaxStart2 == 1
\* the sample rate, scaled down
Sr == 2

\* onset_ncc_thresh: the default 0.7 (line 162), and a value no score
\* reaches, which forces the else branch of line 200
Thresholds == {Rat(7, 10), Rat(11, 10)}

Zeros(d) == [k \in 1..d |-> 0]

Recordings1 == SeqsOfLen(0..MaxAmp, WavLen)

Recordings2(w) == {w} \cup {Zeros(d) \o w \o Zeros(d) : d \in 1..MaxDelay}

\* librosa.load(wav, sr = sr, mono = True, offset = start, duration = dur),
\* lines 166-167, in samples: what the file holds of [start, start + dur)
load(wav, start, dur) == Slice(wav, start, start + dur)

\* line 177
seg_len_of(len, n_segments) == len \div n_segments

\* line 181 with one sample too many at the end of the slice
segment_bounds_overlap(i, seg_len) == [lo |-> i * seg_len, hi |-> (i + 1) * seg_len + 1]

\* line 181: tpl_bp_full[i * seg_len : (i + 1) * seg_len]
segment_bounds(i, seg_len) == [lo |-> i * seg_len, hi |-> (i + 1) * seg_len]

\* line 196: ncc_off = (idx + frac) / sr
ncc_off_of(idx, frac, sr) == RDiv(RAdd(RInt(idx), frac), RInt(sr))

\* line 200 with the test inverted
pick_inverted(ncc_off, score, tau, thresh) == IF RLeq(thresh, score) THEN tau ELSE ncc_off

\* line 200: ncc_off if score >= onset_ncc_thresh else tau
pick(ncc_off, score, tau, thresh) == IF RLeq(thresh, score) THEN ncc_off ELSE tau

RECURSIVE RSum(_)
RSum(s) == IF s = << >> THEN RInt(0) ELSE RAdd(Head(s), RSum(Tail(s)))

\* np.mean: the sum over the count; nan for no entries
mean(s) == RDiv(RSum(s), RInt(Len(s)))

FsoFrame(w1, w2, s1, s2, ns, th) ==
    [pc |-> "load", wav1 |-> w1, wav2 |-> w2, sr |-> Sr,
     start1 |-> s1, start2 |-> s2,
     template_dur |-> WavLen, search_dur |-> WavLen + 2 * MaxDelay,
     n_segments |-> ns, onset_ncc_thresh |-> th,
     tpl_full |-> << >>, sig_full |-> << >>,
     tpl_bp_full |-> << >>, sig_bp |-> << >>, o_s |-> << >>,
     seg_len |-> 0, i |-> 0, segs |-> << >>, offsets |-> << >>,
     avg_offset |-> RInt(0)]

FsoInit ==
    /\ \E w1 \in Recordings1 : \E w2 \in Recordings2(w1) :
         \E s1 \in 0..WavLen, s2 \in 0..MaxStart2, ns \in 1..MaxSeg, th \in Thresholds :
            fso = FsoFrame(w1, w2, s1, s2, ns, th)
    /\ par = Idle
    /\ gcc = Idle
    /\ prog = Idle

\* step 1, lines 166-167
FsoLoad ==
    /\ fso.pc = "load"
    /\ fso' = [fso EXCEPT !.pc = "bandpass",
                          !.tpl_full = load(fso.wav1, fso.start1, fso.template_dur),
                          !.sig_full = load(fso.wav2, fso.start2, fso.search_dur)]
    /\ UNCHANGED <<par, gcc, prog>>

\* step 2, lines 170-171
FsoBandpass ==
    /\ fso.pc = "bandpass"
    /\ fso' = [fso EXCEPT !.pc = "onset",
                          !.tpl_bp_full = bandpass_filter(fso.tpl_full),
                          !.sig_bp = bandpass_filter(fso.sig_full)]
    /\ UNCHANGED <<par, gcc, prog>>

\* step 3, line 174
FsoOnset ==
    /\ fso.pc = "onset"
    /\ fso' = [fso EXCEPT !.pc = "split", !.o_s = onset_strength(fso.sig_bp)]
    /\ UNCHANGED <<par, gcc, prog>>

\* step 4, lines 177-178: no test of seg_len comes before the loop
FsoSplit ==
    /\ fso.pc = "split"
    /\ fso' = [fso EXCEPT !.pc = "segment",
                          !.seg_len = seg_len_of(Len(fso.tpl_bp_full), fso.n_segments),
                          !.i = 0, !.offsets = << >>]
    /\ UNCHANGED <<par, gcc, prog>>

\* one turn of the loop, lines 180-200, and the loop's exit when it was the
\* last; segs records what the turn computed.  Each local of the loop body is
\* bound once, in the order the body assigns it.
FsoSegment ==
    /\ fso.pc = "segment"
    /\ fso.i < fso.n_segments
    /\ \E b \in {segment_bounds(fso.i, fso.seg_len)} :
       \E seg \in {Slice(fso.tpl_bp_full, b.lo, b.hi)} :
       \E tau \in {gcc_phat(seg, fso.sig_bp, fso.sr)} :
       \E ncc \in {ncc_of(fso.o_s, onset_strength(seg))} :
       \E idx \in {ArgMaxF(ncc)} :
       \E frac \in {parabolic_interpolation(ncc, idx)} :
       \E ncc_off \in {ncc_off_of(idx, frac, fso.sr)} :
       \E score \in {At(ncc, idx)} :
          fso' = [fso EXCEPT
                     !.i = fso.i + 1,
                     !.pc = IF fso.i + 1 < fso.n_segments THEN "segment" ELSE "average",
                     !.offsets = Append(fso.offsets,
                                        pick(ncc_off, score, tau, fso.onset_ncc_thresh)),
                     !.segs = Append(fso.segs,
                                [lo |-> b.lo, hi |-> b.hi, len |-> Len(seg),
                                 tau |-> tau, idx |-> idx, frac |-> frac,
                                 ncc_off |-> ncc_off, score |-> score])]
    /\ UNCHANGED <<par, gcc, prog>>

\* the same turn for a segment of no samples, on a build whose
\* onset_strength rejects an empty signal (it pads by reflection, which an
\* empty array does not allow): line 184 has run, line 187 raises
FsoSegmentRaises ==
    /\ fso.pc = "segment"
    /\ fso.i < fso.n_segments
    /\ \E b \in {segment_bounds(fso.i, fso.seg_len)} :
       \E seg \in {Slice(fso.tpl_bp_full, b.lo, b.hi)} :
          /\ seg = << >>
          /\ fso' = [fso EXCEPT
                        !.pc = "raised",
                        !.segs = Append(fso.segs,
                                   [lo |-> b.lo, hi |-> b.hi, len |-> 0,
                                    tau |-> gcc_phat(seg, fso.sig_bp, fso.sr),
                                    idx |-> 0, frac |-> RInt(0),
                                    ncc_off |-> RInt(0), score |-> RInt(0)])]
    /\ UNCHANGED <<par, gcc, prog>>

\* step 5, lines 203-205
FsoAverage ==
    /\ fso.pc = "average"
    /\ fso' = [fso EXCEPT !.pc = "returned", !.avg_offset = mean(fso.offsets)]
    /\ UNCHANGED <<par, gcc, prog>>

FsoNext ==
    \/ FsoLoad
    \/ FsoBandpass
    \/ FsoOnset
    \/ FsoSplit
    \/ FsoSegment
    \/ FsoSegmentRaises
    \/ FsoAverage

Spec == FsoInit /\ [][FsoNext]_vars

\* the score of segment k reaches the threshold
Strong(k) == RLeq(fso.onset_ncc_thresh, fso.segs[k].score)

\* C1: the lag kept for a segment is its envelope lag when its NCC peak
\* score is at least onset_ncc_thresh and its GCC-PHAT lag otherwise; when
\* every score is below the threshold the result is the mean of the
\* GCC-PHAT lags.
C1_FusionPolicy ==
    fso.pc = "returned" =>
        /\ \A k \in 1..Len(fso.offsets) :
              fso.offsets[k] = IF Strong(k) THEN fso.segs[k].ncc_off ELSE fso.segs[k].tau
        /\ (\A k \in 1..Len(fso.segs) : ~Strong(k)) =>
              fso.avg_offset = mean([k \in 1..Len(fso.segs) |-> fso.segs[k].tau])

\* a call that kept the envelope lag of one segment and the phase lag of
\* another, the two lags differing in both
C1_Witness ==
    /\ fso.pc = "returned"
    /\ \E j, k \in 1..Len(fso.segs) :
          /\ Strong(j)
          /\ ~Strong(k)
          /\ fso.segs[j].ncc_off # fso.segs[j].tau
          /\ fso.segs[k].ncc_off # fso.segs[k].tau

\* C2: with identical template and search clips at start1 = start2 = 0 the
\* returned offset is 0, whatever n_segments is.
C2_IdenticalClipsGiveZero ==
    ( /\ fso.pc = "returned"
      /\ fso.start1 = 0
      /\ fso.start2 = 0
      /\ fso.tpl_full = fso.sig_full ) => fso.avg_offset = RInt(0)

\* C2 on clips that are not digital silence (some sample is not 0)
C2_AudibleIdenticalClipsGiveZero ==
    ( /\ fso.pc = "returned"
      /\ fso.start1 = 0
      /\ fso.start2 = 0
      /\ fso.tpl_full = fso.sig_full
      /\ \E k \in 1..Len(fso.tpl_full) : fso.tpl_full[k] # 0 ) => fso.avg_offset = RInt(0)

\* C3: with more segments asked for than the template has samples, the call
\* fails before a correlator runs: a correlator has run only when
\* n_segments <= len(template), and never on a segment of no samples.
C3_SegmentCountGuard ==
    Len(fso.segs) > 0 =>
        /\ fso.n_segments <= Len(fso.tpl_bp_full)
        /\ \A k \in 1..Len(fso.segs) : fso.segs[k].len > 0

\* C4: the envelope lag of a segment is (idx + frac) * hop / sr seconds.
C4_EnvelopeLagUsesHop ==
    \A k \in 1..Len(fso.segs) :
        fso.segs[k].len > 0 =>
            fso.segs[k].ncc_off =
                RDiv(RMul(RAdd(RInt(fso.segs[k].idx), fso.segs[k].frac), RInt(Hop)),
                     RInt(fso.sr))

\* C6: the result is the mean of exactly n_segments lags; segment i is the
\* slice [i * seg_len, (i + 1) * seg_len) of the template with seg_len =
\* floor(len(template) / n_segments), so the segments have one length and do
\* not overlap.
C6_MeanOverEqualSegments ==
    fso.pc = "returned" =>
        /\ Len(fso.offsets) = fso.n_segments
        /\ Len(fso.segs) = fso.n_segments
        /\ RMul(fso.avg_offset, RInt(fso.n_segments)) = RSum(fso.offsets)
        /\ fso.seg_len * fso.n_segments <= Len(fso.tpl_bp_full)
        /\ Len(fso.tpl_bp_full) < (fso.seg_len + 1) * fso.n_segments
        /\ \A k \in 1..Len(fso.segs) :
              /\ fso.segs[k].lo = (k - 1) * fso.seg_len
              /\ fso.segs[k].hi = k * fso.seg_len
              /\ fso.segs[k].len = fso.seg_len
        /\ \A j, k \in 1..Len(fso.segs) : j < k => fso.segs[j].hi <= fso.segs[k].lo

\* three segments of one sample each cut from a template of four samples
C6_Witness ==
    /\ fso.pc = "returned"
    /\ fso.n_segments = 3
    /\ Len(fso.tpl_bp_full) = 4
    /\ fso.seg_len = 1
    /\ Len(fso.offsets) = 3

---------------------------------------------------------------------------
(* The __main__ block, src/main.py 208-267, run after run *)

\* runs of the program over one working directory
MaxRuns == 2
\* line 237: step = 60 * 60
Step == 3600

\* the videos on disk: directory, stem, suffix, and length in seconds
Videos ==
    { [dir |-> "cam1", stem |-> "take",  ext |-> ".mp4", dur |-> 10800],
      [dir |-> "cam2", stem |-> "take",  ext |-> ".mp4", dur |-> 9000],
      [dir |-> "cam1", stem |-> "other", ext |-> ".mkv", dur |-> 3600] }

\* the values of --start1, --start2, --sr and of find_sync_offset's result
Starts1 == {0, 3600, 10800}
Starts2 == {0, 1800}
Rates == {8000, 16000}
Lags == {Rat(4, 5), Rat(1, 1), Rat(6, 5)}

\* lines 223-224: "./tmp" / Path(vid.with_suffix(".wav").name), the file's
\* stem with .wav in ./tmp, whatever its directory and suffix
wav_of(vid) == vid.stem

WavNames == {wav_of(v) : v \in Videos}

\* a name in ./tmp with no file behind it
NoWav == [present |-> FALSE, dir |-> "", stem |-> "", ext |-> "", dur |-> 0, sr |-> 0]

\* the file extract_audio writes, lines 76-95: the video's audio at rate sr
Extracted(vid, sr) ==
    [present |-> TRUE, dir |-> vid.dir, stem |-> vid.stem, ext |-> vid.ext,
     dur |-> vid.dur, sr |-> sr]

\* lines 227-228 and 230-231: if not wav.exists(): extract_audio(vid, wav, sr)
extract_if_missing(tmp, vid, wav, sr) ==
    IF tmp[wav].present THEN tmp ELSE [tmp EXCEPT ![wav] = Extracted(vid, sr)]

\* line 238 with the end point included
start_times_closed(min_duration) ==
    IF min_duration < 0 THEN << >>
    ELSE [k \in 1..(min_duration \div Step + 1) |-> (k - 1) * Step]

\* line 238: np.arange(0, min_duration, step), the multiples of step from 0
\* that are below min_duration
start_times_of(min_duration) ==
    IF min_duration <= 0 THEN << >>
    ELSE [k \in 1..((min_duration + Step - 1) \div Step) |-> (k - 1) * Step]

\* floor of a finite float
Floor(r) == r.n \div r.d

\* format_seconds, lines 103-108: h, m, s by floor division; int() of nan
\* raises ValueError, of inf OverflowError
format_seconds(seconds) ==
    IF ~Finite(seconds) THEN [ok |-> FALSE, h |-> 0, m |-> 0, s |-> 0]
    ELSE LET h   == Floor(RDiv(seconds, RInt(3600)))
             rem == RSub(seconds, RInt(3600 * h))
         IN  [ok |-> TRUE, h |-> h,
              m |-> Floor(RDiv(rem, RInt(60))),
              s |-> Floor(RSub(seconds, RInt(60 * Floor(RDiv(seconds, RInt(60))))))]

\* line 261 (and calc_similar_start, lines 111-113)
synced_time_of(start1, start2, offset) == RSub(RAdd(RInt(start2), offset), RInt(start1))

\* the frame of a run before its arguments are read; tmp outlives the run
Fresh(tmp, runs) ==
    [pc |-> "parse", tmp |-> tmp, runs |-> runs,
     file1 |-> CHOOSE v \in Videos : TRUE, file2 |-> CHOOSE v \in Videos : TRUE,
     start1 |-> 0, start2 |-> 0, sr |-> 0, silent |-> FALSE,
     wav1 |-> "", wav2 |-> "", min_duration |-> 0, start_times |-> << >>,
     calls |-> << >>, offsets |-> << >>, offset |-> RInt(0), synced_time |-> RInt(0),
     out |-> << >>, raised |-> ""]

MainInit ==
    /\ prog = Fresh([w \in WavNames |-> NoWav], 0)
    /\ par = Idle
    /\ gcc = Idle
    /\ fso = Idle

\* lines 209-224: the arguments, the resolved paths, the names in ./tmp
MainParse ==
    /\ prog.pc = "parse"
    /\ prog.runs < MaxRuns
    /\ \E f1 \in Videos, f2 \in Videos, s1 \in Starts1, s2 \in Starts2,
          sr \in Rates, silent \in BOOLEAN :
          prog' = [prog EXCEPT !.pc = "extract1", !.runs = prog.runs + 1,
                               !.file1 = f1, !.file2 = f2,
                               !.start1 = s1, !.start2 = s2,
                               !.sr = sr, !.silent = silent,
                               !.wav1 = wav_of(f1), !.wav2 = wav_of(f2)]
    /\ UNCHANGED <<par, gcc, fso>>

\* lines 227-228
MainExtract1 ==
    /\ prog.pc = "extract1"
    /\ prog' = [prog EXCEPT !.pc = "extract2",
                            !.tmp = extract_if_missing(prog.tmp, prog.file1, prog.wav1, prog.sr)]
    /\ UNCHANGED <<par, gcc, fso>>

\* lines 230-231
MainExtract2 ==
    /\ prog.pc = "extract2"
    /\ prog' = [prog EXCEPT !.pc = "durations",
                            !.tmp = extract_if_missing(prog.tmp, prog.file2, prog.wav2, prog.sr)]
    /\ UNCHANGED <<par, gcc, fso>>

\* lines 233-240: the lengths are those of the files in ./tmp
MainDurations ==
    /\ prog.pc = "durations"
    /\ LET md == Min2(prog.tmp[prog.wav1].dur - prog.start1,
                      prog.tmp[prog.wav2].dur - prog.start2)
       IN  prog' = [prog EXCEPT !.pc = "loop", !.min_duration = md,
                                !.start_times = start_times_of(md), !.offsets = << >>]
    /\ UNCHANGED <<par, gcc, fso>>

\* one turn of the loop, lines 242-258: the progress line on stderr and one
\* call of find_sync_offset on the two files in ./tmp, whose result is one
\* of Lags
MainWindow ==
    /\ prog.pc = "loop"
    /\ Len(prog.offsets) < Len(prog.start_times)
    /\ \E lag \in Lags :
          LET start == prog.start_times[Len(prog.offsets) + 1]
          IN  prog' = [prog EXCEPT
                         !.out = Append(prog.out, [stream |-> "stderr", kind |-> "progress",
                                                   value |-> RInt(start)]),
                         !.calls = Append(prog.calls,
                                     [audio1 |-> prog.tmp[prog.wav1],
                                      audio2 |-> prog.tmp[prog.wav2],
                                      sr |-> prog.sr,
                                      start1 |-> start + prog.start1,
                                      start2 |-> start + prog.start2]),
                         !.offsets = Append(prog.offsets, lag)]
    /\ UNCHANGED <<par, gcc, fso>>

\* lines 260-261, after the last turn
MainMean ==
    /\ prog.pc = "loop"
    /\ Len(prog.offsets) = Len(prog.start_times)
    /\ LET offset == mean(prog.offsets)
       IN  prog' = [prog EXCEPT !.pc = "report", !.offset = offset,
                                !.synced_time = synced_time_of(prog.start1, prog.start2, offset)]
    /\ UNCHANGED <<par, gcc, fso>>

\* lines 263-267.  Without --silent line 264 prints the offset before line
\* 265 formats the time; with it line 267 formats first.  format_seconds
\* raises on nan, which ends the run with a traceback.
MainReport ==
    /\ prog.pc = "report"
    /\ LET fmt   == format_seconds(prog.synced_time)
           best  == [stream |-> "stdout", kind |-> "offset", value |-> prog.offset]
           sync  == [stream |-> "stdout", kind |-> "synced", value |-> prog.synced_time]
           human == [stream |-> "stderr", kind |-> "synced", value |-> prog.synced_time]
       IN  prog' = [prog EXCEPT
                      !.pc = IF fmt.ok THEN "exit" ELSE "crashed",
                      !.raised = IF fmt.ok THEN "" ELSE "ValueError",
                      !.out = IF prog.silent
                              THEN (IF fmt.ok THEN prog.out \o <<human, sync>> ELSE prog.out)
                              ELSE (IF fmt.ok THEN prog.out \o <<best, sync>>
                                    ELSE Append(prog.out, best))]
    /\ UNCHANGED <<par, gcc, fso>>

\* the process ends; ./tmp stays for the next run
MainExit ==
    /\ prog.pc \in {"exit", "crashed"}
    /\ prog.runs < MaxRuns
    /\ prog' = Fresh(prog.tmp, prog.runs)
    /\ UNCHANGED <<par, gcc, fso>>

MainNext ==
    \/ MainParse
    \/ MainExtract1
    \/ MainExtract2
    \/ MainDurations
    \/ MainWindow
    \/ MainMean
    \/ MainReport
    \/ MainExit

SpecMain == MainInit /\ [][MainNext]_vars

\* the run has left the loop
Reported == prog.pc \in {"report", "exit", "crashed"}

\* C5: find_sync_offset is called once for each window start k * step with
\* 0 <= k * step < min(duration1 - start1, duration2 - start2), at the
\* offsets (start1 + k * step, start2 + k * step); one lag is kept per
\* window and the final offset is the mean of those lags.
C5_OneCallPerWindowAndMean ==
    Reported =>
        LET K == Len(prog.calls)
        IN  /\ prog.min_duration = Min2(prog.tmp[prog.wav1].dur - prog.start1,
                                        prog.tmp[prog.wav2].dur - prog.start2)
            /\ Len(prog.offsets) = K
            /\ \A k \in 1..K :
                  /\ (k - 1) * Step < prog.min_duration
                  /\ prog.calls[k].start1 = prog.start1 + (k - 1) * Step
                  /\ prog.calls[k].start2 = prog.start2 + (k - 1) * Step
            /\ K * Step >= prog.min_duration
            /\ K >= 1 => RMul(prog.offset, RInt(K)) = RSum(prog.offsets)

\* a run over three windows whose lags 1.0, 1.2, 0.8 average to 1.0
C5_Witness ==
    /\ prog.pc = "exit"
    /\ prog.offsets = <<Rat(1, 1), Rat(6, 5), Rat(4, 5)>>
    /\ Len(prog.calls) = 3
    /\ prog.offset = RInt(1)

\* what a first run over an empty ./tmp analyses for the second file
FirstRunAudio2 ==
    IF prog.wav2 = prog.wav1 THEN Extracted(prog.file1, prog.sr)
    ELSE Extracted(prog.file2, prog.sr)

\* C8, second half alone: a run after earlier runs analyses what a first
\* run on the same arguments analyses.
C8_SameAsFirstRun ==
    \A k \in 1..Len(prog.calls) :
        /\ prog.calls[k].audio1 = Extracted(prog.file1, prog.sr)
        /\ prog.calls[k].audio2 = FirstRunAudio2

\* C8: the program keeps no state between runs: whatever ran before, a run
\* analyses the audio of file1 and of file2 extracted at its own sample
\* rate, as a first run does.
C8_NoPersistedState ==
    \A k \in 1..Len(prog.calls) :
        /\ prog.calls[k].audio1 = Extracted(prog.file1, prog.sr)
        /\ prog.calls[k].audio2 = Extracted(prog.file2, prog.sr)
        /\ prog.calls[k].audio2 = FirstRunAudio2

\* C9: with no window (the overlapping duration is not positive) the run
\* ends in a configuration error and prints no offset and no alignment; any
\* offset printed is the mean of at least one window lag.
C9_NoWindowIsAConfigurationError ==
    /\ \A k \in 1..Len(prog.out) :
          prog.out[k].kind \in {"offset", "synced"} => Len(prog.offsets) >= 1
    /\ (prog.pc \in {"exit", "crashed"} /\ prog.min_duration <= 0) =>
          prog.raised = "ConfigurationError"

====
